---- MODULE Spec2Model ----
(***************************************************************************)
(* Model of Scene (src/src/scene.rs): a tree of sprites with an            *)
(* identifier -> position index for the top level, and the registry of     *)
(* running animations keyed by sprite identifier.                          *)
(*                                                                         *)
(* Option<T> values are modelled as sequences: <<>> is None, <<x>> is      *)
(* Some(x).  Vec positions are 0-based as in the source; the TLA+ sequence *)
(* element at position i is seq[i + 1].                                    *)
(***************************************************************************)
EXTENDS Integers, Sequences, FiniteSets

\* ---------------------------------------------------------------- bounds
\* Largest number of animation entries the model lets run() create at once.
MaxRunning == 2
\* Largest elapsed time carried by one tick event.
MaxDt == 2

\* Sprite identifiers (Uuid values) the model draws from.
Ids == {1, 2, 3}

\* Behavior<Animation> templates, compared by value.  A template is
\* abstracted to the time it needs and the status it reports when done.
Behaviors ==
    { [dur |-> 1, result |-> "Failure"], [dur |-> 3, result |-> "Success"] }

\* Placeholder template for operations that take none (history only).
NoBehavior == [dur |-> 0, result |-> "None"]

VARIABLES
    children,        \* Vec<Sprite<I>>: the top-level sprites, in order
    children_index,  \* HashMap<Uuid, uint>: identifier -> 0-based position
    running,         \* HashMap<Uuid, Vec<(Behavior, State, bool)>>
    fault,           \* TRUE once the unwrap() in event has panicked
    last,            \* history: the operation that produced this state
    probe            \* history: one entry followed through pause and resume

vars == <<children, children_index, running, fault, last, probe>>

\* ------------------------------------------------------------ sequences
Min(S) == CHOOSE x \in S : \A y \in S : x <= y

\* Vec::remove(i) for a 0-based position i: the remaining elements.
RemoveAt(seq, i) ==
    [k \in 1..(Len(seq) - 1) |-> IF k <= i THEN seq[k] ELSE seq[k + 1]]

\* HashMap::insert(k, v)
MapInsert(m, k, v) ==
    [x \in (DOMAIN m) \cup {k} |-> IF x = k THEN v ELSE m[x]]

\* HashMap::remove(k)
MapRemove(m, k) == [x \in (DOMAIN m) \ {k} |-> m[x]]

\* -------------------------------------------------------------- sprites
\* A sprite is [id, children]: its identifier and its nested sprites.
RECURSIVE SpriteIds(_)
SpriteIds(s) ==
    {s.id} \cup UNION {SpriteIds(s.children[i]) : i \in 1..Len(s.children)}

RECURSIVE ForestIds(_)
ForestIds(f) == UNION {SpriteIds(f[i]) : i \in 1..Len(f)}

\* Sprite::child(id): the nested sprite with this identifier, at any depth
\* below s (direct children first, then depth-first in order).
RECURSIVE sprite_child(_, _), sprite_child_from(_, _, _)
sprite_child(s, id) ==
    LET direct == {i \in 1..Len(s.children) : s.children[i].id = id}
    IN  IF direct # {} THEN <<s.children[Min(direct)]>>
        ELSE sprite_child_from(s, id, 1)
sprite_child_from(s, id, k) ==
    IF k > Len(s.children) THEN <<>>
    ELSE LET r == sprite_child(s.children[k], id)
         IN  IF r # <<>> THEN r ELSE sprite_child_from(s, id, k + 1)

\* Sprite::remove_child(id): removes the nested sprite with this identifier
\* at any depth below s; yields the removed sprite and s afterwards.
RECURSIVE sprite_remove_child(_, _), sprite_remove_from(_, _, _)
sprite_remove_child(s, id) ==
    LET direct == {i \in 1..Len(s.children) : s.children[i].id = id}
    IN  IF direct # {}
        THEN [removed |-> <<s.children[Min(direct)]>>,
              sprite  |-> [s EXCEPT !.children = RemoveAt(@, Min(direct) - 1)]]
        ELSE sprite_remove_from(s, id, 1)
sprite_remove_from(s, id, k) ==
    IF k > Len(s.children) THEN [removed |-> <<>>, sprite |-> s]
    ELSE LET r == sprite_remove_child(s.children[k], id)
         IN  IF r.removed # <<>>
             THEN [removed |-> r.removed,
                   sprite  |-> [s EXCEPT !.children[k] = r.sprite]]
             ELSE sprite_remove_from(s, id, k + 1)

\* The sprites a caller can construct: every tree of sprites whose
\* identifiers are pairwise distinct.
RECURSIVE TreesOver(_), ForestsOver(_)
TreesOver(S) ==
    UNION { {[id |-> i, children |-> cs] : cs \in ForestsOver(S \ {i})}
            : i \in S }
ForestsOver(S) ==
    {<<>>} \cup
    UNION { {<<t>> \o f : f \in ForestsOver(S \ SpriteIds(t))}
            : t \in TreesOver(S) }

AllSprites == TreesOver(Ids)

\* Identifiers of every sprite in the scene, at any depth.
TreeIds == ForestIds(children)

\* The probe before any entry is followed.  phase: "setup", "paused",
\* "resumed" or "done"; id, t: the pause call; cursor: the cursor the entry
\* should hold; back: how many entries sit behind it in its list; same:
\* resume located this very entry; n, m: a tick happened while paused,
\* after the resume.
NoProbe ==
    [phase |-> "setup", id |-> 0, t |-> NoBehavior, cursor |-> <<>>,
     back |-> 0, same |-> FALSE, n |-> FALSE, m |-> FALSE]

\* ------------------------------------------------------------- Scene::new
Init ==
    /\ children = <<>>
    /\ children_index = <<>>
    /\ running = <<>>
    /\ fault = FALSE
    /\ last = [op |-> "new", id |-> 0, t |-> NoBehavior, res |-> "ok",
               flag |-> FALSE, n |-> 0, prev |-> "none"]
    /\ probe = NoProbe

\* History only: the call that was made (op, id, t), its outcome (res), a
\* flag and a number describing what it acted on, and the name of the call
\* before it when that call named the same identifier and template.
Note(op, id, t, res, flag, n) ==
    last' = [op |-> op, id |-> id, t |-> t, res |-> res, flag |-> flag,
             n |-> n,
             prev |-> IF t # NoBehavior /\ last.id = id /\ last.t = t
                      THEN last.op ELSE "none"]

\* ---------------------------------------------------------- Scene::child
\* child / child_mut: the index first, then each top-level sprite in turn.
RECURSIVE child_from(_, _)
child_from(id, k) ==
    IF k > Len(children) THEN <<>>
    ELSE LET r == sprite_child(children[k], id)
         IN  IF r # <<>> THEN r ELSE child_from(id, k + 1)

child_top_only(id) ==
    IF id \in DOMAIN children_index
    THEN <<children[children_index[id] + 1]>>
    ELSE <<>>

child(id) ==
    IF id \in DOMAIN children_index
    THEN <<children[children_index[id] + 1]>>
    ELSE child_from(id, 1)

child_mut(id) == child(id)

\* ------------------------------------------------------ Scene::add_child
add_child_first(sprite) ==
    /\ ~fault
    /\ SpriteIds(sprite) \cap TreeIds = {}
    /\ children' = Append(children, sprite)
    /\ children_index' = MapInsert(children_index, sprite.id, 0)
    /\ Note("add_child", sprite.id, NoBehavior, "ok", FALSE, 0)
    /\ UNCHANGED <<running, fault>>

\* The identifier returned is sprite.id(); the history records it as id.
add_child(sprite) ==
    /\ ~fault
    /\ SpriteIds(sprite) \cap TreeIds = {}
    /\ children' = Append(children, sprite)
    /\ children_index' =
           MapInsert(children_index, sprite.id, Len(children') - 1)
    /\ Note("add_child", sprite.id, NoBehavior, "ok", FALSE, 0)
    /\ UNCHANGED <<running, fault>>

\* The entry list of a key, empty when the key is absent.
KeyList(reg, k) == IF k \in DOMAIN reg THEN reg[k] ELSE <<>>

\* ------------------------------------------------------- Scene::stop_all
stop_all_clears(reg, sprite_id) ==
    IF sprite_id \in DOMAIN reg THEN [reg EXCEPT ![sprite_id] = <<>>]
    ELSE reg

stop_all(reg, sprite_id) == MapRemove(reg, sprite_id)

\* stop_all for the sprite, then for each nested sprite, recursively.
RECURSIVE stop_all_including_children(_, _), stop_all_children_from(_, _, _)
stop_all_including_children(reg, sprite) ==
    stop_all_children_from(stop_all(reg, sprite.id), sprite, 1)
stop_all_children_from(reg, sprite, k) ==
    IF k > Len(sprite.children) THEN reg
    ELSE stop_all_children_from(
             stop_all_including_children(reg, sprite.children[k]),
             sprite, k + 1)

\* ---------------------------------------------------- Scene::remove_child
\* The index after children.remove(i): the entries of the sprites now at
\* positions i.. are re-inserted with their new positions.
reindex_stale(idx, ch, i) == idx

reindex(idx, ch, i) ==
    LET moved == (i + 1)..Len(ch)
        movedIds == {ch[k].id : k \in moved}
    IN  [x \in (DOMAIN idx) \cup movedIds |->
            IF x \in movedIds
            THEN (CHOOSE k \in moved :
                     /\ ch[k].id = x
                     /\ \A j \in moved : ch[j].id = x => j <= k) - 1
            ELSE idx[x]]

RECURSIVE remove_nested_keeps(_, _, _)
remove_nested_keeps(ch, id, k) ==
    IF k > Len(ch) THEN [removed |-> <<>>, children |-> ch]
    ELSE LET r == sprite_remove_child(ch[k], id)
         IN  IF r.removed # <<>>
             THEN [removed |-> r.removed, children |-> ch]
             ELSE remove_nested_keeps(ch, id, k + 1)

\* The None arm: ask each top-level sprite in turn to remove the nested
\* sprite; the first success ends the search.
RECURSIVE remove_nested_from(_, _, _)
remove_nested_from(ch, id, k) ==
    IF k > Len(ch) THEN [removed |-> <<>>, children |-> ch]
    ELSE LET r == sprite_remove_child(ch[k], id)
         IN  IF r.removed # <<>>
             THEN [removed |-> r.removed,
                   children |-> [ch EXCEPT ![k] = r.sprite]]
             ELSE remove_nested_from(ch, id, k + 1)

\* The registry after a removal found through the index (Some(i) arm):
\* control reaches the cascade at the end of remove_child.
cascade_top(reg, removed) == stop_all_including_children(reg, removed)

\* The registry after a removal found in a nested sprite (None arm): the
\* arm returns Some(c) directly, so the cascade below it is not reached.
cascade_nested(reg, removed) == reg

cascade_none_stops(reg, id) == stop_all(reg, id)

\* The registry when nothing was removed (removed.is_some() is false): no
\* stop_all is made.
cascade_none(reg, id) == reg

remove_child(id) ==
    /\ ~fault
    /\ IF id \in DOMAIN children_index
       THEN LET i == children_index[id]
                removed == children[i + 1]
                ch == RemoveAt(children, i)
            IN  /\ children' = ch
                /\ children_index' =
                       reindex(MapRemove(children_index, id), ch, i)
                /\ running' = cascade_top(running, removed)
                /\ Note("remove_child", id, NoBehavior, "top", FALSE, i)
       ELSE LET r == remove_nested_from(children, id, 1)
            IN  /\ children' = r.children
                /\ children_index' = children_index
                /\ running' = IF r.removed # <<>>
                              THEN cascade_nested(running, r.removed[1])
                              ELSE cascade_none(running, id)
                /\ IF r.removed # <<>>
                   THEN Note("remove_child", id, NoBehavior, "nested",
                             FALSE, 0)
                   ELSE Note("remove_child", 0, NoBehavior, "absent",
                             FALSE, 0)
    /\ UNCHANGED fault

\* ----------------------------------------------------------- Scene::run
\* State::new(animation.clone()): a cursor with no animation state yet.
new_state(animation) == <<>>

\* Scene::running(): the sum of the entry-list lengths.
RECURSIVE SumLen(_, _)
SumLen(reg, keys) ==
    IF keys = {} THEN 0
    ELSE LET k == CHOOSE x \in keys : TRUE
         IN  Len(reg[k]) + SumLen(reg, keys \ {k})

running_count(reg) == SumLen(reg, DOMAIN reg)

run_reg(reg, sprite_id, animation) ==
    LET animations == IF sprite_id \in DOMAIN reg THEN reg[sprite_id]
                      ELSE <<>>
    IN  MapInsert(reg, sprite_id,
            Append(animations, <<animation, new_state(animation), FALSE>>))

run(sprite_id, animation) ==
    /\ ~fault
    /\ running_count(running) < MaxRunning
    /\ running' = run_reg(running, sprite_id, animation)
    /\ Note("run", sprite_id, animation, "ok", FALSE, 0)
    /\ UNCHANGED <<children, children_index, fault>>

\* ---------------------------------------------------------- Scene::find
find_latest(reg, sprite_id, animation) ==
    IF sprite_id \in DOMAIN reg
    THEN LET animations == reg[sprite_id]
             hits == {i \in 0..(Len(animations) - 1) :
                         animations[i + 1][1] = animation}
         IN  IF hits = {} THEN <<>>
             ELSE <<CHOOSE i \in hits : \A j \in hits : j <= i>>
    ELSE <<>>

\* The 0-based position of the first entry of sprite_id whose template
\* equals animation, as an Option.
find(reg, sprite_id, animation) ==
    IF sprite_id \in DOMAIN reg
    THEN LET animations == reg[sprite_id]
             hits == {i \in 0..(Len(animations) - 1) :
                         animations[i + 1][1] = animation}
         IN  IF hits = {} THEN <<>> ELSE <<Min(hits)>>
    ELSE <<>>

move_to_end_in_place(animations, i, flag) ==
    [animations EXCEPT ![i + 1] = <<@[1], @[2], flag>>]

move_to_end_copies(animations, i, flag) ==
    LET e == animations[i + 1]
    IN  Append(animations, <<e[1], e[2], flag>>)

\* animations.remove(i) followed by animations.push((b, s, flag)).
move_to_end(animations, i, flag) ==
    LET e == animations[i + 1]
    IN  Append(RemoveAt(animations, i), <<e[1], e[2], flag>>)

\* ------------------------------------------- Scene::pause/resume/toggle
pause_reg_any(reg, sprite_id, animation) ==
    LET index == find(reg, sprite_id, animation)
    IN  IF index # <<>>
        THEN [reg EXCEPT ![sprite_id] = move_to_end(@, index[1], TRUE)]
        ELSE IF Len(KeyList(reg, sprite_id)) > 0
        THEN [reg EXCEPT ![sprite_id] = move_to_end(@, 0, TRUE)]
        ELSE reg

pause_reg(reg, sprite_id, animation) ==
    LET index == find(reg, sprite_id, animation)
    IN  IF index # <<>>
        THEN [reg EXCEPT ![sprite_id] = move_to_end(@, index[1], TRUE)]
        ELSE reg

resume_reg_keeps(reg, sprite_id, animation) ==
    LET index == find(reg, sprite_id, animation)
    IN  IF index # <<>>
        THEN [reg EXCEPT ![sprite_id] =
                 move_to_end(@, index[1], @[index[1] + 1][3])]
        ELSE reg

resume_reg(reg, sprite_id, animation) ==
    LET index == find(reg, sprite_id, animation)
    IN  IF index # <<>>
        THEN [reg EXCEPT ![sprite_id] = move_to_end(@, index[1], FALSE)]
        ELSE reg

toggle_reg_sets(reg, sprite_id, animation) ==
    LET index == find(reg, sprite_id, animation)
    IN  IF index # <<>>
        THEN [reg EXCEPT ![sprite_id] = move_to_end(@, index[1], TRUE)]
        ELSE reg

toggle_reg(reg, sprite_id, animation) ==
    LET index == find(reg, sprite_id, animation)
    IN  IF index # <<>>
        THEN [reg EXCEPT ![sprite_id] =
                 move_to_end(@, index[1], ~(@[index[1] + 1][3]))]
        ELSE reg

stop_reg_every(reg, sprite_id, animation) ==
    LET index == find(reg, sprite_id, animation)
    IN  IF index # <<>>
        THEN [reg EXCEPT ![sprite_id] =
                 SelectSeq(@, LAMBDA e : e[1] # animation)]
        ELSE reg

\* Scene::stop: animations.remove(i); the key stays in the map.
stop_reg(reg, sprite_id, animation) ==
    LET index == find(reg, sprite_id, animation)
    IN  IF index # <<>>
        THEN [reg EXCEPT ![sprite_id] = RemoveAt(@, index[1])]
        ELSE reg

\* History of a control call: whether an entry was located, and the
\* position and paused flag it had before the call.
NoteControl(op, sprite_id, animation) ==
    LET index == find(running, sprite_id, animation)
    IN  IF index # <<>>
        THEN Note(op, sprite_id, animation, "found",
                  running[sprite_id][index[1] + 1][3], index[1])
        ELSE Note(op, 0, NoBehavior, "missed", FALSE, 0)

pause(sprite_id, animation) ==
    /\ ~fault
    /\ running' = pause_reg(running, sprite_id, animation)
    /\ NoteControl("pause", sprite_id, animation)
    /\ UNCHANGED <<children, children_index, fault>>

resume(sprite_id, animation) ==
    /\ ~fault
    /\ running' = resume_reg(running, sprite_id, animation)
    /\ NoteControl("resume", sprite_id, animation)
    /\ UNCHANGED <<children, children_index, fault>>

toggle(sprite_id, animation) ==
    /\ ~fault
    /\ running' = toggle_reg(running, sprite_id, animation)
    /\ NoteControl("toggle", sprite_id, animation)
    /\ UNCHANGED <<children, children_index, fault>>

stop(sprite_id, animation) ==
    /\ ~fault
    /\ running' = stop_reg(running, sprite_id, animation)
    /\ NoteControl("stop", sprite_id, animation)
    /\ UNCHANGED <<children, children_index, fault>>

stop_all_op(sprite_id) ==
    /\ ~fault
    /\ running' = stop_all(running, sprite_id)
    /\ LET dropped == KeyList(running, sprite_id)
       IN  Note("stop_all", sprite_id, NoBehavior, "ok",
                \E i \in 1..Len(dropped) : dropped[i][3], Len(dropped))
    /\ UNCHANGED <<children, children_index, fault>>

\* --------------------------------------------------------- Scene::event
\* a.event(e, closure): one step of the cursor of template b over dt.  A
\* cursor without animation state starts from the state derived from the
\* sprite (no time elapsed); the state then advances by dt and the status
\* is Running until the template's time is used up.
a_event(b, a, dt) ==
    LET start == IF a = <<>> THEN 0 ELSE a[1]
        elapsed == start + dt
    IN  IF elapsed < b.dur
        THEN [status |-> "Running", state |-> <<elapsed>>]
        ELSE [status |-> b.result, state |-> <<b.dur>>]

tick_entry_keeps(e, dt) ==
    IF e[3] THEN <<e>>
    ELSE << <<e[1], a_event(e[1], e[2], dt).state, e[3]>> >>

tick_entry_steps_paused(e, dt) ==
    LET r == a_event(e[1], e[2], dt)
    IN  IF r.status = "Running" THEN << <<e[1], r.state, e[3]>> >>
        ELSE <<>>

tick_entry_twice(e, dt) ==
    IF e[3] THEN <<e>>
    ELSE LET r == a_event(e[1], e[2], dt)
         IN  IF r.status = "Running"
             THEN << <<e[1], r.state, e[3]>>, <<e[1], r.state, e[3]>> >>
             ELSE <<>>

\* What the tick does with one entry: the entries it pushes on
\* new_animations (one or none).
tick_entry(e, dt) ==
    IF e[3] THEN <<e>>
    ELSE LET r == a_event(e[1], e[2], dt)
         IN  IF r.status = "Running" THEN << <<e[1], r.state, e[3]>> >>
             ELSE <<>>

RECURSIVE new_animations_rev(_, _)
new_animations_rev(animations, dt) ==
    IF animations = <<>> THEN <<>>
    ELSE new_animations_rev(Tail(animations), dt)
            \o tick_entry(Head(animations), dt)

\* new_animations for one key: the inner loop over its entries.
RECURSIVE new_animations(_, _)
new_animations(animations, dt) ==
    IF animations = <<>> THEN <<>>
    ELSE tick_entry(Head(animations), dt)
            \o new_animations(Tail(animations), dt)

\* The keys whose processing reaches child_mut(id).unwrap() on None.
Faulting ==
    {k \in DOMAIN running :
        /\ \E i \in 1..Len(running[k]) : ~running[k][i][3]
        /\ child_mut(k) = <<>>}

\* The rebuilt registry when the keys in done have been processed: a key is
\* inserted only if its new list is not empty.
rebuilt(reg, done, dt) ==
    [k \in {x \in done : Len(new_animations(reg[x], dt)) > 0} |->
        new_animations(reg[k], dt)]

Retires(reg, dt) ==
    \E k \in DOMAIN reg :
        Len(new_animations(reg[k], dt)) < Len(reg[k])

\* One tick.  With no faulting key every key is processed.  Otherwise the
\* map is iterated in an arbitrary order and the panic leaves the registry
\* holding the keys processed before the first faulting one.
event(dt) ==
    /\ ~fault
    /\ IF Faulting = {}
       THEN /\ running' = rebuilt(running, DOMAIN running, dt)
            /\ fault' = FALSE
            /\ Note("event", 0, NoBehavior,
                    IF Retires(running, dt) THEN "retired" ELSE "ok",
                    FALSE, dt)
       ELSE \E done \in SUBSET ((DOMAIN running) \ Faulting) :
                /\ running' = rebuilt(running, done, dt)
                /\ fault' = TRUE
                /\ Note("event", 0, NoBehavior, "fault", FALSE, dt)
    /\ UNCHANGED <<children, children_index>>

\* ------------------------------------------------------- specification
\* Spec: the registry under arbitrary calls on the identifiers RegIds.  One
\* of them may be added to the tree and removed again; the other one is
\* never in the tree, so run can also name an identifier that is absent.
RegIds == {1, 2}
RegSprites == TreesOver({1})

AddChild ==
    /\ \E sprite \in RegSprites : add_child(sprite)
    /\ UNCHANGED probe
RemoveChild ==
    /\ \E id \in RegIds : remove_child(id)
    /\ UNCHANGED probe
Run ==
    /\ \E id \in RegIds, t \in Behaviors : run(id, t)
    /\ UNCHANGED probe
Pause ==
    /\ \E id \in RegIds, t \in Behaviors : pause(id, t)
    /\ UNCHANGED probe
Resume ==
    /\ \E id \in RegIds, t \in Behaviors : resume(id, t)
    /\ UNCHANGED probe
Toggle ==
    /\ \E id \in RegIds, t \in Behaviors : toggle(id, t)
    /\ UNCHANGED probe
Stop ==
    /\ \E id \in RegIds, t \in Behaviors : stop(id, t)
    /\ UNCHANGED probe
StopAll ==
    /\ \E id \in RegIds : stop_all_op(id)
    /\ UNCHANGED probe
Event ==
    /\ \E dt \in 1..MaxDt : event(dt)
    /\ UNCHANGED probe

Next ==
    \/ AddChild
    \/ RemoveChild
    \/ Run
    \/ Pause
    \/ Resume
    \/ Toggle
    \/ Stop
    \/ StopAll
    \/ Event

Spec == Init /\ [][Next]_vars

\* SpecTree: the tree under every shape of sprite over Ids, with the scene
\* used as documented: run names a sprite that is in the tree.  One short
\* template keeps the registry small; resume and toggle, which only move
\* entries within a list, are exercised in Spec.
TreeBehaviors == {b \in Behaviors : b.dur = 1}

TreeAddChild ==
    /\ \E sprite \in AllSprites : add_child(sprite)
    /\ UNCHANGED probe
TreeRemoveChild ==
    /\ \E id \in Ids : remove_child(id)
    /\ UNCHANGED probe
TreeRun ==
    /\ \E id \in TreeIds, t \in TreeBehaviors : run(id, t)
    /\ UNCHANGED probe
TreePause ==
    /\ \E id \in Ids, t \in TreeBehaviors : pause(id, t)
    /\ UNCHANGED probe
TreeStop ==
    /\ \E id \in Ids, t \in TreeBehaviors : stop(id, t)
    /\ UNCHANGED probe
TreeStopAll ==
    /\ \E id \in Ids : stop_all_op(id)
    /\ UNCHANGED probe

NextTree ==
    \/ TreeAddChild
    \/ TreeRemoveChild
    \/ TreeRun
    \/ TreePause
    \/ TreeStop
    \/ TreeStopAll
    \/ Event

SpecTree == Init /\ [][NextTree]_vars

TypeOK ==
    /\ fault \in BOOLEAN
    /\ DOMAIN running \subseteq Ids
    /\ DOMAIN children_index \subseteq Ids

\* SpecPauseResume: pause of a running entry, ticks, resume, ticks.  The
\* scene is first brought to any state that add_child, run, pause and event
\* can produce; the probe then follows the entry the pause call located.
SetupAddChild == probe.phase = "setup" /\ AddChild
SetupRun == probe.phase = "setup" /\ Run
SetupPause == probe.phase = "setup" /\ Pause
SetupEvent == probe.phase = "setup" /\ Event

ProbePause ==
    /\ probe.phase = "setup"
    /\ \E id \in RegIds, t \in Behaviors :
          LET index == find(running, id, t)
          IN  /\ index # <<>>
              /\ ~running[id][index[1] + 1][3]
              /\ pause(id, t)
              /\ probe' = [NoProbe EXCEPT
                              !.phase = "paused", !.id = id, !.t = t,
                              !.cursor = running[id][index[1] + 1][2]]

ProbePausedTick ==
    /\ probe.phase = "paused"
    /\ \E dt \in 1..MaxDt : event(dt)
    /\ probe' = [probe EXCEPT !.n = TRUE]

ProbeResume ==
    /\ probe.phase = "paused"
    /\ resume(probe.id, probe.t)
    /\ LET hit == find(running, probe.id, probe.t)
               = <<Len(KeyList(running, probe.id)) - 1>>
       IN  probe' = [probe EXCEPT !.phase = "resumed", !.same = hit,
                                  !.back = IF hit THEN 0 ELSE 1]

ProbeResumedTick ==
    /\ probe.phase = "resumed"
    /\ \E dt \in 1..MaxDt :
          /\ event(dt)
          /\ LET list == KeyList(running, probe.id)
                 behind == SubSeq(list, Len(list) - probe.back + 1,
                                  Len(list))
                 r == a_event(probe.t, probe.cursor, dt)
             IN  probe' = [probe EXCEPT
                              !.phase = IF r.status = "Running"
                                        THEN "resumed" ELSE "done",
                              !.cursor = r.state,
                              !.back = Len(new_animations(behind, dt)),
                              !.m = TRUE]

NextPauseResume ==
    \/ SetupAddChild
    \/ SetupRun
    \/ SetupPause
    \/ SetupEvent
    \/ ProbePause
    \/ ProbePausedTick
    \/ ProbeResume
    \/ ProbeResumedTick

SpecPauseResume == Init /\ [][NextPauseResume]_vars

\* ================================================================ claims
Found(l) == l.res = "found"
LastEntry(reg, k) == reg[k][Len(reg[k])]

\* C1: whenever remove_child returns a removed sprite, found at the top
\* level or nested at any depth, the registry afterwards holds no key for
\* the removed sprite nor for any sprite nested in it.
C1_RemoveCascades ==
    [][(last'.op = "remove_child" /\ last'.res \in {"top", "nested"})
          => \A k \in TreeIds \ TreeIds' : k \notin DOMAIN running']_vars

\* C2: when run is only called with identifiers of sprites in the tree,
\* every registry key identifies a sprite that is in the tree at some
\* depth, and the tick never reaches the fatal unwrap.
C2_KeysInTree ==
    /\ DOMAIN running \subseteq TreeIds
    /\ ~fault

\* C3: registry emptiness: every key of the registry maps to a non-empty
\* entry list (a stop that removes the last entry drops the key).
C3_NoEmptyList ==
    \A k \in DOMAIN running : Len(running[k]) > 0

\* C4: tree/index consistency: children_index has exactly one entry per
\* top-level sprite, mapping its identifier to its current position, and
\* no entry for any other identifier.
C4_IndexConsistent ==
    /\ DOMAIN children_index = {children[k].id : k \in 1..Len(children)}
    /\ \A k \in 1..Len(children) : children_index[children[k].id] = k - 1

\* A top-level removal took a sprite from in front of others, so positions
\* shifted, in a tree that also holds a nested sprite.
C4_Witness ==
    /\ last.op = "remove_child"
    /\ last.res = "top"
    /\ last.n < Len(children)
    /\ \E k \in 1..Len(children) : children[k].children # <<>>

\* The entry the probe follows, as an Option.
ProbeEntry ==
    LET list == KeyList(running, probe.id)
    IN  IF Len(list) > probe.back THEN <<list[Len(list) - probe.back]>>
        ELSE <<>>

\* C5 as claimed: pause(id, t), N ticks, resume(id, t), M ticks leave the
\* cursor of the paused entry equal to what M ticks alone produce from the
\* cursor it had before the pause: while paused the entry keeps its cursor,
\* and after the resume it is running again.
C5_PauseResume ==
    ~fault =>
        /\ probe.phase = "paused"
              => ProbeEntry = << <<probe.t, probe.cursor, TRUE>> >>
        /\ probe.phase = "resumed"
              => ProbeEntry = << <<probe.t, probe.cursor, FALSE>> >>

\* C5 amended: the same, provided the paused entry is the only entry of id
\* whose template equals t when resume(id, t) is called, so that resume
\* locates it.
C5_PauseResumeSole ==
    ~fault =>
        /\ probe.phase = "paused"
              => ProbeEntry = << <<probe.t, probe.cursor, TRUE>> >>
        /\ (probe.phase = "resumed" /\ probe.same)
              => ProbeEntry = << <<probe.t, probe.cursor, FALSE>> >>

\* The followed entry was paused over a tick, resumed and ticked again,
\* in a list that holds another entry, and is still running.
C5_Witness ==
    /\ ~fault
    /\ probe.phase = "resumed"
    /\ probe.same
    /\ probe.n
    /\ probe.m
    /\ Len(KeyList(running, probe.id)) >= 2

\* C6: toggle(id, t) applied twice in a row to the same entry restores the
\* paused flag the entry had before the first call; every toggle leaves the
\* other entries of id, their flags included, as they were.  The second
\* call acts on the same entry when it locates the entry the first call
\* moved to the end of the list.
C6_ToggleTwice ==
    [][(last'.op = "toggle" /\ Found(last'))
          => LET id == last'.id
                 len == Len(running[id])
             IN  /\ id \in DOMAIN running'
                 /\ Len(running'[id]) = len
                 /\ SubSeq(running'[id], 1, len - 1)
                        = RemoveAt(running[id], last'.n)
                 /\ (last'.prev = "toggle" /\ Found(last)
                        /\ last'.n = len - 1)
                       => LastEntry(running', id)[3] = last.flag]_vars

\* Two toggles in a row have acted on one entry of a list that holds other
\* entries as well.
C6_Witness ==
    /\ last.op = "toggle"
    /\ Found(last)
    /\ last.prev = "toggle"
    /\ last.n = Len(running[last.id]) - 1
    /\ Len(running[last.id]) >= 2

\* C7: run(id, t) increases running() by exactly 1, and a stop(id, t) that
\* follows on the same identifier and template decreases it by exactly 1.
C7_RunStopCount ==
    [][/\ last'.op = "run"
            => running_count(running') = running_count(running) + 1
       /\ \A id \in Ids, t \in Behaviors :
            (last.op = "run" /\ last.id = id /\ last.t = t /\ stop(id, t))
                => running_count(running') = running_count(running) - 1]_vars

\* A stop has followed a run of the same identifier and template, on an
\* identifier that held another entry of that template.
C7_Witness ==
    /\ last.op = "stop"
    /\ Found(last)
    /\ last.prev = "run"
    /\ \E i \in 1..Len(running[last.id]) : running[last.id][i][1] = last.t

\* C8: after stop_all(id) the registry holds no key for id, so id
\* contributes 0 to running(), however many entries it had and whether
\* they were paused; the entries of every other identifier are unchanged.
C8_StopAll ==
    [][last'.op = "stop_all"
          => /\ last'.id \notin DOMAIN running'
             /\ Len(KeyList(running', last'.id)) = 0
             /\ DOMAIN running' = (DOMAIN running) \ {last'.id}
             /\ \A k \in DOMAIN running' : running'[k] = running[k]
             /\ running_count(running')
                   = running_count(running)
                        - Len(KeyList(running, last'.id))]_vars

\* stop_all dropped the entries of an identifier, a paused one among them,
\* while another identifier kept its entries.
C8_Witness ==
    /\ last.op = "stop_all"
    /\ last.n >= 1
    /\ last.flag
    /\ running_count(running) > 0

\* The non-paused entries of a list whose status over dt is not Running.
Terminal(animations, dt) ==
    {i \in 1..Len(animations) :
        /\ ~animations[i][3]
        /\ a_event(animations[i][1], animations[i][2], dt).status
              # "Running"}

RECURSIVE SumTerminal(_, _, _)
SumTerminal(reg, keys, dt) ==
    IF keys = {} THEN 0
    ELSE LET k == CHOOSE x \in keys : TRUE
         IN  Cardinality(Terminal(reg[k], dt))
                + SumTerminal(reg, keys \ {k}, dt)

\* C9: a non-paused entry whose status is succeeded or failed during a
\* tick is absent from the registry when the tick returns: every list
\* shrinks by the number of such entries and running() no longer counts
\* them.
C9_TerminalRetired ==
    [][(last'.op = "event" /\ last'.res # "fault")
          => /\ \A k \in DOMAIN running :
                   Len(KeyList(running', k))
                     = Len(running[k])
                          - Cardinality(Terminal(running[k], last'.n))
             /\ running_count(running')
                   = running_count(running)
                        - SumTerminal(running, DOMAIN running, last'.n)]_vars

\* A tick retired an entry and carried another one forward.
C9_Witness ==
    /\ last.op = "event"
    /\ last.res = "retired"
    /\ running_count(running) > 0

Paused(animations) == SelectSeq(animations, LAMBDA e : e[3])

\* C10: event leaves every paused entry unchanged: template, cursor and
\* flag are the same after the tick and the entry is still in its list.
C10_PausedFrozen ==
    [][(last'.op = "event" /\ last'.res # "fault")
          => \A k \in DOMAIN running :
                Paused(KeyList(running', k)) = Paused(running[k])]_vars

\* A tick has run over a paused entry whose cursor holds animation state,
\* next to a non-paused entry.
C10_Witness ==
    /\ last.op = "event"
    /\ last.res # "fault"
    /\ \E k \in DOMAIN running :
          /\ \E i \in 1..Len(running[k]) :
                running[k][i][3] /\ running[k][i][2] # <<>>
          /\ \E i \in 1..Len(running[k]) : ~running[k][i][3]

\* C11: child(id) and child_mut(id) return the sprite whose identifier is
\* id whenever that sprite is in the tree, at the top level or nested at
\* any depth, and None for an identifier that is not in the tree (so for
\* one that was never added).
C11_ChildFinds ==
    \A id \in Ids :
        /\ id \in TreeIds
              => /\ child(id) # <<>>
                 /\ child(id)[1].id = id
                 /\ child_mut(id) # <<>>
                 /\ child_mut(id)[1].id = id
        /\ id \notin TreeIds
              => (child(id) = <<>> /\ child_mut(id) = <<>>)

\* The tree holds a nested sprite, found by child, after another
\* identifier was removed and is no longer found.
C11_Witness ==
    /\ \E k \in 1..Len(children) :
          /\ children[k].children # <<>>
          /\ LET nested == children[k].children[1]
             IN  child(nested.id) = <<nested>>
    /\ last.op = "remove_child"
    /\ last.res = "top"
    /\ child(last.id) = <<>>

\* C12: add_child(sprite) returns the sprite's own identifier; right after
\* it child(that identifier) returns the added sprite, which sits at the
\* last position of the top-level sequence, behind the sprites that were
\* there before.
C12_AddThenChild ==
    [][last'.op = "add_child"
          => /\ Len(children') = Len(children) + 1
             /\ SubSeq(children', 1, Len(children)) = children
             /\ children'[Len(children')].id = last'.id
             /\ \A id \in Ids :
                   last'.id = id
                     => child(id)' = <<children'[Len(children')]>>]_vars

\* A sprite holding a nested sprite was added behind another top-level
\* sprite.
C12_Witness ==
    /\ last.op = "add_child"
    /\ Len(children) >= 2
    /\ children[Len(children)].id = last.id
    /\ children[Len(children)].children # <<>>

\* Some entry of id carries a template equal to t.
Located(reg, id, t) ==
    \E i \in 1..Len(KeyList(reg, id)) : reg[id][i][1] = t

\* C13: pause, resume, toggle and stop called with an identifier that has
\* no registry key, or with a template equal to none of its entries, leave
\* the registry and the tree unchanged and do not fault.
C13_MissIsNoOp ==
    [][\A id \in Ids, t \in Behaviors :
          (/\ ~Located(running, id, t)
           /\ \/ pause(id, t)
              \/ resume(id, t)
              \/ toggle(id, t)
              \/ stop(id, t))
            => /\ last'.res = "missed"
               /\ UNCHANGED <<running, children, children_index, fault>>]_vars

\* A control call missed while the registry held entries of one identifier
\* and no key for another.
C13_Witness ==
    /\ last.op \in {"pause", "resume", "toggle", "stop"}
    /\ last.res = "missed"
    /\ running_count(running) > 0
    /\ \E id \in RegIds : id \notin DOMAIN running

\* C14: remove_child(id) for an identifier that matches no sprite at any
\* depth returns None and leaves the top-level sequence, the index and the
\* registry unchanged.
C14_RemoveAbsent ==
    [][\A id \in Ids :
          (id \notin TreeIds /\ remove_child(id))
            => /\ last'.res = "absent"
               /\ UNCHANGED <<children, children_index, running>>]_vars

\* remove_child found nothing in a tree that holds a nested sprite, while
\* the registry holds entries.
C14_Witness ==
    /\ last.op = "remove_child"
    /\ last.res = "absent"
    /\ \E k \in 1..Len(children) : children[k].children # <<>>
    /\ running_count(running) > 0

\* The entry a tick carries forward for e, and whether it carries one.
Carried(e, dt) ==
    IF e[3] THEN e ELSE <<e[1], a_event(e[1], e[2], dt).state, e[3]>>

Survives(e, dt) ==
    e[3] \/ a_event(e[1], e[2], dt).status = "Running"

TickOf(animations, dt) ==
    LET kept == SelectSeq(animations, LAMBDA e : Survives(e, dt))
    IN  [i \in 1..Len(kept) |-> Carried(kept[i], dt)]

\* C15: one tick steps each non-paused entry once and rebuilds each list
\* as exactly the pre-tick entries that were paused or are still running,
\* in their pre-tick order with flags unchanged; no entry is duplicated or
\* moved to another identifier and no key is created.
C15_TickRebuild ==
    [][(last'.op = "event" /\ last'.res # "fault")
          => /\ DOMAIN running' \subseteq DOMAIN running
             /\ \A k \in DOMAIN running :
                   KeyList(running', k) = TickOf(running[k], last'.n)]_vars

\* A tick has carried a paused entry and, behind it, a stepped one.
C15_Witness ==
    /\ last.op = "event"
    /\ last.res # "fault"
    /\ \E k \in DOMAIN running :
          /\ Len(running[k]) = 2
          /\ running[k][1][3]
          /\ ~running[k][2][3]
          /\ running[k][2][2] # <<>>

\* The paused flag pause / resume / toggle give an entry whose flag was f.
FlagAfter(op, f) ==
    IF op = "pause" THEN TRUE ELSE IF op = "resume" THEN FALSE ELSE ~f

\* C16: when the entry is found, pause / resume / toggle (id, t) take the
\* earliest entry of id whose template equals t out of its position and
\* put it at the end of the list with flag true / false / negated, with
\* its template and cursor; the other entries keep their order, flags and
\* cursors.
C16_MoveToEnd ==
    [][/\ \A id \in Ids, t \in Behaviors :
            (/\ Located(running, id, t)
             /\ pause(id, t) \/ resume(id, t) \/ toggle(id, t))
              => (Found(last') /\ last'.id = id /\ last'.t = t)
       /\ (last'.op \in {"pause", "resume", "toggle"} /\ Found(last'))
            => LET list == running[last'.id]
                   e == list[last'.n + 1]
               IN  /\ e[1] = last'.t
                   /\ \A j \in 1..last'.n : list[j][1] # last'.t
                   /\ DOMAIN running' = DOMAIN running
                   /\ \A k \in DOMAIN running :
                         running'[k] =
                           IF k = last'.id
                           THEN Append(RemoveAt(list, last'.n),
                                       <<e[1], e[2],
                                         FlagAfter(last'.op, e[3])>>)
                           ELSE running[k]]_vars

\* pause took the first of two entries to the end of the list.
C16_Witness ==
    /\ last.op = "pause"
    /\ Found(last)
    /\ last.n = 0
    /\ Len(running[last.id]) >= 2
    /\ LastEntry(running, last.id)[3]

\* C17: when several entries of one identifier carry templates equal to
\* t, stop(id, t) removes the one at the earliest position and leaves the
\* later ones, and every other entry, in place and unchanged.
C17_StopEarliest ==
    [][(last'.op = "stop" /\ Found(last'))
          => LET list == running[last'.id]
             IN  /\ list[last'.n + 1][1] = last'.t
                 /\ \A j \in 1..last'.n : list[j][1] # last'.t
                 /\ DOMAIN running' = DOMAIN running
                 /\ \A k \in DOMAIN running :
                       running'[k] = IF k = last'.id
                                     THEN RemoveAt(list, last'.n)
                                     ELSE running[k]]_vars

\* stop removed the first of two entries with equal templates after a
\* tick had stepped them; the later one is left with its cursor.
C17_Witness ==
    /\ last.op = "stop"
    /\ Found(last)
    /\ last.n = 0
    /\ Len(running[last.id]) = 1
    /\ running[last.id][1][1] = last.t
    /\ running[last.id][1][2] # <<>>

\* C18: pause, resume and toggle never change running(): the keys of the
\* registry and the number of entries of every identifier are the same
\* before and after, found or not.
C18_ControlKeepsCount ==
    [][last'.op \in {"pause", "resume", "toggle"}
          => /\ DOMAIN running' = DOMAIN running
             /\ \A k \in DOMAIN running :
                   Len(running'[k]) = Len(running[k])
             /\ running_count(running') = running_count(running)]_vars

\* resume located an entry in a list of two.
C18_Witness ==
    /\ last.op = "resume"
    /\ Found(last)
    /\ Len(running[last.id]) = 2
    /\ running_count(running) = 2

\* C19: event, run, pause, resume, toggle, stop and stop_all leave the
\* top-level sequence, the nesting and the index as they were, and event
\* never increases running().
C19_TreeUntouched ==
    [][/\ last'.op \in {"event", "run", "pause", "resume", "toggle",
                        "stop", "stop_all"}
            => UNCHANGED <<children, children_index>>
       /\ last'.op = "event"
            => running_count(running') <= running_count(running)]_vars

\* A tick stepped two running entries of a sprite that is in the tree.
C19_Witness ==
    /\ last.op = "event"
    /\ last.res = "ok"
    /\ children # <<>>
    /\ \E k \in DOMAIN running \cap TreeIds :
          /\ Len(running[k]) = 2
          /\ \A i \in 1..2 : ~running[k][i][3] /\ running[k][i][2] # <<>>

\* C20: after remove_child(id) returns a removed sprite, child returns
\* None for id and for every sprite nested in the removed one, and every
\* other sprite that child found before is still returned, with its own
\* identifier.
C20_RemovedNotFound ==
    [][\A id \in Ids :
          (/\ last'.op = "remove_child"
           /\ last'.res \in {"top", "nested"}
           /\ last'.id = id)
            => /\ child(id) # <<>>
               /\ \A x \in Ids :
                     IF x \in SpriteIds(child(id)[1])
                     THEN child(x)' = <<>>
                     ELSE child(x) # <<>>
                            => /\ child(x)' # <<>>
                               /\ child(x)'[1].id = x]_vars

\* A nested sprite was removed and other sprites are still in the tree.
C20_Witness ==
    /\ last.op = "remove_child"
    /\ last.res = "nested"
    /\ child(last.id) = <<>>
    /\ Cardinality(TreeIds) >= 2

====
